---- MODULE Spec2Model ----
(***************************************************************************)
(* A model of fiftyone's dataset schema documents                          *)
(* (fiftyone/core/odm/dataset.py) and of the Hugging Face model dispatch   *)
(* (fiftyone/utils/transformers.py).                                       *)
(*                                                                         *)
(* Three specifications share the module:                                  *)
(*   SpecField    SampleFieldDocument: from_field, list_from_field_schema, *)
(*                matches_field                                            *)
(*   SpecStore    DatasetDocument records in the document store, written   *)
(*                by concurrent writers                                    *)
(*   SpecConvert  convert_transformers_model and its recognisers           *)
(***************************************************************************)
EXTENDS Integers, Sequences, FiniteSets

VARIABLES
    \* ---- SampleFieldDocument ----
    op,         \* the operation that ran last
    doc,        \* the SampleFieldDocument at hand (self), or NoDoc
    origin,     \* the Field Descriptor doc was built from, or NoField
    arg,        \* the Field Descriptor last given to matches_field, or NoField
    outcome,    \* what matches_field did: a return value or an exception
    d,          \* the field schema last given to list_from_field_schema
    docs,       \* the list it returned
    \* ---- DatasetDocument store ----
    datasets,   \* the persisted DatasetDocument records
    next_id,    \* the next identifier the store hands out
    pending,    \* writer -> the request it has in flight, or NoRequest
    reply,      \* writer -> the store's answer to its last request
    \* ---- convert_transformers_model ----
    model,      \* the model last given to convert_transformers_model
    converted   \* what the call did: a wrapper class or an exception

field_vars   == <<op, doc, origin, arg, outcome, d, docs>>
store_vars   == <<datasets, next_id, pending, reply>>
convert_vars == <<model, converted>>
vars         == <<field_vars, store_vars, convert_vars>>

(***************************************************************************)
(* Python values                                                           *)
(***************************************************************************)
\* Python's None.
None == "<None>"

\* An attribute the object does not have (getattr falls back to its default,
\* a plain attribute access raises AttributeError).
Missing == "<missing>"

\* A call's outcome: the value it returned, or the exception it raised.
Return(v) == [raises |-> None, value |-> v]
Raise(e)  == [raises |-> e, value |-> None]

\* Python truthiness of an optional string: None and "" are falsy.
Truthy(x) == x # None /\ x # ""

\* Truthiness of an attribute value that is None or an object (a field
\* instance or a class: neither defines __bool__ or __len__).
TruthyAttr(x) == x # None

(***************************************************************************)
(* Field Descriptors                                                       *)
(***************************************************************************)
Names == {"id", "a", "b", "c"}

\* The classes of the fields themselves.
FieldClasses == {"StringField", "ListField", "EmbeddedDocumentField"}

\* The classes of nested fields (field.field) and of embedded documents
\* (field.document_type).
NestedClasses == {"StringField", "IntField"}
DocumentClasses == {"Detection", "Classification"}

\* The module-qualified name of a class.
QualifiedName(c) ==
    CASE c = "StringField" -> "fiftyone.core.fields.StringField"
      [] c = "IntField" -> "fiftyone.core.fields.IntField"
      [] c = "ListField" -> "fiftyone.core.fields.ListField"
      [] c = "EmbeddedDocumentField" -> "fiftyone.core.fields.EmbeddedDocumentField"
      [] c = "Detection" -> "fiftyone.core.labels.Detection"
      [] c = "Classification" -> "fiftyone.core.labels.Classification"

\* etau.get_class_name(x): the qualified name of x's class (of x itself when
\* x is a class); None is an instance of NoneType.
get_class_name(x) == IF x = None THEN "builtins.NoneType" ELSE QualifiedName(x)

\* Every Field Descriptor: name, class, and the optional attributes field and
\* document_type, each missing, None or set.
FieldDescriptors ==
    [name : Names,
     cls : FieldClasses,
     field : {Missing, None} \cup NestedClasses,
     document_type : {Missing, None} \cup DocumentClasses]

\* getattr(field, attr_name, None)
getattr(field, attr_name) ==
    LET v == IF attr_name = "field" THEN field.field ELSE field.document_type
    IN  IF v = Missing THEN None ELSE v

(***************************************************************************)
(* SampleFieldDocument                                                     *)
(***************************************************************************)
\* _get_attr_repr giving the empty string for an absent attribute.
get_attr_repr_empty(field, attr_name) ==
    LET attr == getattr(field, attr_name)
    IN  IF TruthyAttr(attr) THEN get_class_name(attr) ELSE ""

\* SampleFieldDocument._get_attr_repr(field, attr_name)
get_attr_repr(field, attr_name) ==
    LET attr == getattr(field, attr_name)
    IN  IF TruthyAttr(attr) THEN get_class_name(attr) ELSE None

\* from_field with the two optional attributes exchanged.
from_field_swapped(field) ==
    [name |-> field.name,
     ftype |-> get_class_name(field.cls),
     subfield |-> get_attr_repr(field, "document_type"),
     embedded_doc_type |-> get_attr_repr(field, "field")]

\* SampleFieldDocument.from_field(field)
from_field(field) ==
    [name |-> field.name,
     ftype |-> get_class_name(field.cls),
     subfield |-> get_attr_repr(field, "field"),
     embedded_doc_type |-> get_attr_repr(field, "document_type")]

\* matches_field without the comparison of the names.
matches_field_no_name(self, field) ==
    IF self.ftype # get_class_name(field.cls) THEN Return(FALSE)
    ELSE IF Truthy(self.subfield) /\ field.field = Missing
        THEN Raise("AttributeError")
    ELSE IF Truthy(self.subfield) /\ self.subfield # get_class_name(field.field)
        THEN Return(FALSE)
    ELSE IF Truthy(self.embedded_doc_type) /\ field.document_type = Missing
        THEN Raise("AttributeError")
    ELSE IF Truthy(self.embedded_doc_type)
            /\ self.embedded_doc_type # get_class_name(field.document_type)
        THEN Return(FALSE)
    ELSE Return(TRUE)

\* matches_field without the comparison of the subfield.
matches_field_no_subfield(self, field) ==
    IF self.name # field.name THEN Return(FALSE)
    ELSE IF self.ftype # get_class_name(field.cls) THEN Return(FALSE)
    ELSE IF Truthy(self.embedded_doc_type) /\ field.document_type = Missing
        THEN Raise("AttributeError")
    ELSE IF Truthy(self.embedded_doc_type)
            /\ self.embedded_doc_type # get_class_name(field.document_type)
        THEN Return(FALSE)
    ELSE Return(TRUE)

\* matches_field comparing the optional attributes also when they are absent.
matches_field_strict(self, field) ==
    IF self.name # field.name THEN Return(FALSE)
    ELSE IF self.ftype # get_class_name(field.cls) THEN Return(FALSE)
    ELSE IF field.field = Missing THEN Raise("AttributeError")
    ELSE IF self.subfield # get_class_name(field.field) THEN Return(FALSE)
    ELSE IF field.document_type = Missing THEN Raise("AttributeError")
    ELSE IF self.embedded_doc_type # get_class_name(field.document_type)
        THEN Return(FALSE)
    ELSE Return(TRUE)

\* SampleFieldDocument.matches_field(self, field). Reading field.field or
\* field.document_type of a descriptor without that attribute raises
\* AttributeError.
matches_field(self, field) ==
    IF self.name # field.name THEN Return(FALSE)
    ELSE IF self.ftype # get_class_name(field.cls) THEN Return(FALSE)
    ELSE IF Truthy(self.subfield) /\ field.field = Missing
        THEN Raise("AttributeError")
    ELSE IF Truthy(self.subfield) /\ self.subfield # get_class_name(field.field)
        THEN Return(FALSE)
    ELSE IF Truthy(self.embedded_doc_type) /\ field.document_type = Missing
        THEN Raise("AttributeError")
    ELSE IF Truthy(self.embedded_doc_type)
            /\ self.embedded_doc_type # get_class_name(field.document_type)
        THEN Return(FALSE)
    ELSE Return(TRUE)

\* The longest field schema.
MaxSchemaLen == 3

\* The descriptors the schemas are built from.
SchemaFields ==
    {f \in FieldDescriptors :
        \/ f.cls = "StringField" /\ f.field = Missing /\ f.document_type = Missing
        \/ f.cls = "ListField" /\ f.field = "IntField" /\ f.document_type = Missing}

RECURSIVE SchemasOfLen(_)
SchemasOfLen(n) ==
    IF n = 0 THEN {<<>>}
    ELSE {Append(s, f) : s \in SchemasOfLen(n - 1), f \in SchemaFields}

\* A field schema as Dataset.get_field_schema gives it: an ordered dict from
\* field name to Field Descriptor, here the sequence of its values in
\* iteration order (the keys are the names, so the names are distinct).
FieldSchemas ==
    {s \in UNION {SchemasOfLen(n) : n \in 0..MaxSchemaLen} :
        \A i, j \in 1..Len(s) : i # j => s[i].name # s[j].name}

\* list_from_field_schema without the filter on the name.
RECURSIVE list_from_field_schema_all(_)
list_from_field_schema_all(schema) ==
    IF schema = <<>> THEN <<>>
    ELSE <<from_field(Head(schema))>> \o list_from_field_schema_all(Tail(schema))

\* SampleFieldDocument.list_from_field_schema(d): the comprehension over
\* d.values(), in order.
RECURSIVE list_from_field_schema(_)
list_from_field_schema(schema) ==
    IF schema = <<>> THEN <<>>
    ELSE (IF Head(schema).name # "id" THEN <<from_field(Head(schema))>> ELSE <<>>)
            \o list_from_field_schema(Tail(schema))

\* The SampleFieldDocuments a dataset record can hold: any strings the
\* store persisted, the null marker and the empty string included.
SampleFieldDocuments ==
    [name : Names,
     ftype : {get_class_name(c) : c \in FieldClasses},
     subfield : {None, ""} \cup {get_class_name(c) : c \in NestedClasses \cup {None}},
     embedded_doc_type :
        {None, ""} \cup {get_class_name(c) : c \in DocumentClasses \cup {None}}]

(***************************************************************************)
(* SpecField: the SampleFieldDocument operations                           *)
(***************************************************************************)
\* Values of the variables before anything was given or computed.
NoField   == [name |-> None, cls |-> None, field |-> None, document_type |-> None]
NoDoc     == [name |-> None, ftype |-> None, subfield |-> None, embedded_doc_type |-> None]
NoOutcome == [raises |-> Missing, value |-> None]

FieldIdle ==
    /\ op = "init"
    /\ doc = NoDoc
    /\ origin = NoField
    /\ arg = NoField
    /\ outcome = NoOutcome
    /\ d = <<>>
    /\ docs = <<>>

\* doc = SampleFieldDocument.from_field(f)
FromField ==
    /\ op = "init"
    /\ \E f \in FieldDescriptors :
        /\ op' = "from_field"
        /\ doc' = from_field(f)
        /\ origin' = f
        /\ arg' = NoField
        /\ outcome' = NoOutcome
        /\ d' = <<>>
        /\ docs' = <<>>
    /\ UNCHANGED <<store_vars, convert_vars>>

\* doc is read from the sample_fields or frame_fields of a dataset record.
LoadField ==
    /\ op = "init"
    /\ \E p \in SampleFieldDocuments :
        /\ op' = "load"
        /\ doc' = p
        /\ origin' = NoField
        /\ arg' = NoField
        /\ outcome' = NoOutcome
        /\ d' = <<>>
        /\ docs' = <<>>
    /\ UNCHANGED <<store_vars, convert_vars>>

\* doc.matches_field(f)
MatchesField ==
    /\ op \in {"from_field", "load"}
    /\ \E f \in FieldDescriptors :
        /\ op' = "matches_field"
        /\ arg' = f
        /\ outcome' = matches_field(doc, f)
        /\ UNCHANGED <<doc, origin, d, docs>>
    /\ UNCHANGED <<store_vars, convert_vars>>

\* docs = SampleFieldDocument.list_from_field_schema(s)
ListFromFieldSchema ==
    /\ op = "init"
    /\ \E s \in FieldSchemas :
        /\ op' = "list_from_field_schema"
        /\ d' = s
        /\ docs' = list_from_field_schema(s)
        /\ doc' = NoDoc
        /\ origin' = NoField
        /\ arg' = NoField
        /\ outcome' = NoOutcome
    /\ UNCHANGED <<store_vars, convert_vars>>

(***************************************************************************)
(* DatasetDocument and the document store                                  *)
(***************************************************************************)
Writers == {"w1", "w2"}
DatasetNames == {"quickstart", "cifar10"}
CollectionNames == {"samples.1", "samples.2"}

\* The most records the store ever creates.
MaxDatasets == 3

\* DatasetDocument with unique=True left out of name.
DatasetDocument_unique_no_name == {"sample_collection_name"}

\* The fields DatasetDocument declares unique=True.
DatasetDocument_unique == {"name", "sample_collection_name"}

\* The store's unique indexes: a record may not share the value of a unique
\* field with another persisted record.
NotUnique(rec, others) ==
    \E o \in others : \E k \in DatasetDocument_unique : o[k] = rec[k]

NoRequest ==
    [kind |-> None, id |-> 0, name |-> None, sample_collection_name |-> None]

Requests ==
    [kind : {"create"}, id : {0}, name : DatasetNames,
     sample_collection_name : CollectionNames]
    \cup [kind : {"update"}, id : 1..MaxDatasets, name : DatasetNames,
          sample_collection_name : CollectionNames]
    \cup [kind : {"delete"}, id : 1..MaxDatasets, name : {None},
          sample_collection_name : {None}]

NoReply == [kind |-> None, status |-> None]

StoreIdle ==
    /\ datasets = {}
    /\ next_id = 1
    /\ pending = [w \in Writers |-> NoRequest]
    /\ reply = [w \in Writers |-> NoReply]

\* The creates in flight.
Creating == {w \in Writers : pending[w].kind = "create"}

\* A writer sends a create, an update (save) or a delete of a DatasetDocument.
Submit(w) ==
    /\ pending[w] = NoRequest
    /\ \E r \in Requests :
        /\ r.kind = "create" => next_id + Cardinality(Creating) <= MaxDatasets
        /\ r.kind # "create" => r.id < next_id
        /\ pending' = [pending EXCEPT ![w] = r]
    /\ reply' = [reply EXCEPT ![w] = NoReply]
    /\ UNCHANGED <<datasets, next_id>>
    /\ UNCHANGED <<field_vars, convert_vars>>

\* The store inserts the record, atomically, or refuses it.
StoreCreate(w) ==
    /\ pending[w].kind = "create"
    /\ LET rec == [id |-> next_id, name |-> pending[w].name,
                   sample_collection_name |-> pending[w].sample_collection_name]
       IN  IF NotUnique(rec, datasets)
           THEN /\ reply' = [reply EXCEPT ![w] =
                                [kind |-> "create", status |-> "NotUniqueError"]]
                /\ UNCHANGED <<datasets, next_id>>
           ELSE /\ datasets' = datasets \cup {rec}
                /\ next_id' = next_id + 1
                /\ reply' = [reply EXCEPT ![w] = [kind |-> "create", status |-> "ok"]]
    /\ pending' = [pending EXCEPT ![w] = NoRequest]
    /\ UNCHANGED <<field_vars, convert_vars>>

\* The store writes the record under its identifier (an upsert), atomically,
\* or refuses it.
StoreUpdate(w) ==
    /\ pending[w].kind = "update"
    /\ LET rec == [id |-> pending[w].id, name |-> pending[w].name,
                   sample_collection_name |-> pending[w].sample_collection_name]
           others == {o \in datasets : o.id # rec.id}
       IN  IF NotUnique(rec, others)
           THEN /\ reply' = [reply EXCEPT ![w] =
                                [kind |-> "update", status |-> "NotUniqueError"]]
                /\ UNCHANGED datasets
           ELSE /\ datasets' = others \cup {rec}
                /\ reply' = [reply EXCEPT ![w] = [kind |-> "update", status |-> "ok"]]
    /\ pending' = [pending EXCEPT ![w] = NoRequest]
    /\ UNCHANGED next_id
    /\ UNCHANGED <<field_vars, convert_vars>>

\* The store removes the record, atomically.
StoreDelete(w) ==
    /\ pending[w].kind = "delete"
    /\ datasets' = {o \in datasets : o.id # pending[w].id}
    /\ reply' = [reply EXCEPT ![w] = [kind |-> "delete", status |-> "ok"]]
    /\ pending' = [pending EXCEPT ![w] = NoRequest]
    /\ UNCHANGED next_id
    /\ UNCHANGED <<field_vars, convert_vars>>

(***************************************************************************)
(* convert_transformers_model                                              *)
(***************************************************************************)
\* Strings are sequences of characters, so that Python's substring test,
\* split and slicing are computed character by character.

\* The pieces class names are built from.
NameTokens ==
    {"ViT", "MaskFormer", "For", "ImageClassification", "ObjectDetection",
     "Segmentation", "Model"}

TokenChars(t) ==
    CASE t = "ViT" -> <<"V", "i", "T">>
      [] t = "MaskFormer" -> <<"M", "a", "s", "k", "F", "o", "r", "m", "e", "r">>
      [] t = "For" -> <<"F", "o", "r">>
      [] t = "ImageClassification" -> <<"I", "m", "a", "g", "e", "C", "l", "a", "s", "s", "i", "f", "i", "c", "a", "t", "i", "o", "n">>
      [] t = "ObjectDetection" -> <<"O", "b", "j", "e", "c", "t", "D", "e", "t", "e", "c", "t", "i", "o", "n">>
      [] t = "Segmentation" -> <<"S", "e", "g", "m", "e", "n", "t", "a", "t", "i", "o", "n">>
      [] t = "Model" -> <<"M", "o", "d", "e", "l">>

\* The most tokens in a class name.
MaxNameTokens == 3

RECURSIVE TokenSeqs(_)
TokenSeqs(n) ==
    IF n = 0 THEN {<<>>}
    ELSE {Append(s, t) : s \in TokenSeqs(n - 1), t \in NameTokens}

RECURSIVE Flatten(_)
Flatten(ts) == IF ts = <<>> THEN <<>> ELSE TokenChars(Head(ts)) \o Flatten(Tail(ts))

STR_transformers_models ==
    <<"t", "r", "a", "n", "s", "f", "o", "r", "m", "e", "r", "s", ".",
      "m", "o", "d", "e", "l", "s">>

\* The models: the class (its module, empty for a class of builtins, and its
\* name) and what loading an image processor for it meets.
\*   auto_processor      AutoImageProcessor.from_pretrained(_name_or_path) succeeds
\*   processor_class     transformers has a class <model_name>ImageProcessor
\*   model_name_or_path  model.config has an attribute model_name_or_path
\*   fallback_loads      <model_name>ImageProcessor.from_pretrained succeeds
Models ==
    [module : {<<>>, STR_transformers_models},
     name : UNION {TokenSeqs(n) : n \in 1..MaxNameTokens},
     auto_processor : BOOLEAN,
     processor_class : BOOLEAN,
     model_name_or_path : BOOLEAN,
     fallback_loads : BOOLEAN]

NoModel ==
    [module |-> <<>>, name |-> <<>>, auto_processor |-> FALSE,
     processor_class |-> FALSE, model_name_or_path |-> FALSE,
     fallback_loads |-> FALSE]

\* str(type(model)): <class 'module.Name'>, or <class 'Name'> for builtins.
TypeStr(m) ==
    <<"<", "c", "l", "a", "s", "s", " ", "'">>
        \o (IF m.module = <<>> THEN <<>> ELSE m.module \o <<".">>)
        \o Flatten(m.name) \o <<"'", ">">>

\* sub in s
Contains(sub, s) ==
    \E i \in 0..(Len(s) - Len(sub)) : SubSeq(s, i + 1, i + Len(sub)) = sub

\* s.split(".")[-1]
LastPart(s) ==
    LET dots == {i \in 1..Len(s) : s[i] = "."}
    IN  IF dots = {} THEN s
        ELSE SubSeq(s, (CHOOSE i \in dots : \A j \in dots : j <= i) + 1, Len(s))

\* s[:-2]
DropLast2(s) == SubSeq(s, 1, Len(s) - 2)

\* _get_model_type_string(model)
get_model_type_string(m) == DropLast2(LastPart(TypeStr(m)))

STR_For == <<"F", "o", "r">>
STR_Model == <<"M", "o", "d", "e", "l">>
STR_Segmentation == <<"S", "e", "g", "m", "e", "n", "t", "a", "t", "i", "o", "n">>
STR_ForImageClassification == <<"F", "o", "r", "I", "m", "a", "g", "e", "C", "l", "a", "s", "s", "i", "f", "i", "c", "a", "t", "i", "o", "n">>
STR_ForObjectDetection == <<"F", "o", "r", "O", "b", "j", "e", "c", "t", "D", "e", "t", "e", "c", "t", "i", "o", "n">>

is_transformer_for_image_classification(m) ==
    Contains(STR_ForImageClassification, get_model_type_string(m))

is_transformer_for_object_detection(m) ==
    Contains(STR_ForObjectDetection, get_model_type_string(m))

is_transformer_for_semantic_segmentation(m) ==
    LET ms == get_model_type_string(m)
    IN  Contains(STR_For, ms) /\ Contains(STR_Segmentation, ms)

is_transformer_base_model(m) ==
    LET model_type == get_model_type_string(m)
    IN  Contains(STR_Model, model_type) /\ ~Contains(STR_For, model_type)

\* _get_image_processor_fallback(model): getattr of the processor class and
\* of model.config.model_name_or_path raise AttributeError when missing.
get_image_processor_fallback(m) ==
    IF ~m.processor_class THEN Raise("AttributeError")
    ELSE IF ~m.model_name_or_path THEN Raise("AttributeError")
    ELSE IF ~m.fallback_loads THEN Raise("OSError")
    ELSE Return("ImageProcessor")

\* _get_image_processor(model): any failure of AutoImageProcessor falls back.
get_image_processor(m) ==
    IF m.auto_processor THEN Return("AutoImageProcessor")
    ELSE get_image_processor_fallback(m)

\* FiftyOneTransformer.__init__ of the wrapper class cls: _load_model returns
\* config.model (the model given), then _load_image_processor loads the
\* image processor; an exception of it leaves the constructor.
FiftyOneTransformer_init(cls, m) ==
    LET image_processor == get_image_processor(m)
    IN  IF image_processor.raises # None THEN image_processor ELSE Return(cls)

convert_transformer_base_model(m) ==
    FiftyOneTransformer_init("FiftyOneTransformer", m)

convert_transformer_for_image_classification(m) ==
    FiftyOneTransformer_init("FiftyOneTransformerForImageClassification", m)

convert_transformer_for_object_detection(m) ==
    FiftyOneTransformer_init("FiftyOneTransformerForObjectDetection", m)

convert_transformer_for_semantic_segmentation(m) ==
    FiftyOneTransformer_init("FiftyOneTransformerForSemanticSegmentation", m)

\* convert_transformers_model(model)
convert_transformers_model(m) ==
    IF is_transformer_for_image_classification(m)
        THEN convert_transformer_for_image_classification(m)
    ELSE IF is_transformer_for_object_detection(m)
        THEN convert_transformer_for_object_detection(m)
    ELSE IF is_transformer_for_semantic_segmentation(m)
        THEN convert_transformer_for_semantic_segmentation(m)
    ELSE IF is_transformer_base_model(m)
        THEN convert_transformer_base_model(m)
    ELSE Raise("ValueError")

ConvertIdle ==
    /\ model = NoModel
    /\ converted = NoOutcome

\* converted = convert_transformers_model(m)
Convert ==
    /\ converted = NoOutcome
    /\ \E m \in Models :
        /\ model' = m
        /\ converted' = convert_transformers_model(m)
    /\ UNCHANGED <<field_vars, store_vars>>

(***************************************************************************)
(* Specifications                                                          *)
(***************************************************************************)
Init == FieldIdle /\ StoreIdle /\ ConvertIdle

NextField ==
    \/ FromField
    \/ LoadField
    \/ MatchesField
    \/ ListFromFieldSchema

SpecField == Init /\ [][NextField]_vars

NextStore ==
    \E w \in Writers :
        \/ Submit(w)
        \/ StoreCreate(w)
        \/ StoreUpdate(w)
        \/ StoreDelete(w)

SpecStore == Init /\ [][NextStore]_vars

NextConvert == Convert

SpecConvert == Init /\ [][NextConvert]_vars

(***************************************************************************)
(* Properties of SampleFieldDocument (SpecField)                           *)
(***************************************************************************)
Matched == op = "matches_field"

\* doc and arg agree on name and ftype.
SameNameAndType ==
    /\ doc.name = arg.name
    /\ doc.ftype = get_class_name(arg.cls)

\* C1: round trip - the document built from a Field Descriptor by from_field
\* matches that descriptor, with or without a nested field or a
\* document_type: matches_field returns True.
C1_RoundTrip ==
    (Matched /\ origin # NoField /\ arg = origin) => outcome = Return(TRUE)

C1_Witness ==
    /\ Matched
    /\ arg = origin
    /\ origin.field \in NestedClasses
    /\ origin.document_type = Missing
    /\ doc.subfield = get_class_name(origin.field)
    /\ outcome = Return(TRUE)

\* C2: matches_field never raises - every call, of every persisted document
\* on every Field Descriptor, returns a boolean.
C2_NeverRaises ==
    Matched => (outcome.raises = None /\ outcome.value \in BOOLEAN)

\* The entries of a schema that list_from_field_schema keeps, and the place
\* of a kept entry among them.
Kept(s) == {i \in 1..Len(s) : s[i].name # "id"}
Rank(s, i) == Cardinality({j \in Kept(s) : j <= i})

\* C3: list_from_field_schema(d) returns one document per entry of d not
\* named "id", in the order of d, and leaves out nothing else.
C3_OrderAndIdExcluded ==
    op = "list_from_field_schema" =>
        /\ Len(docs) = Cardinality(Kept(d))
        /\ \A i \in Kept(d) : docs[Rank(d, i)] = from_field(d[i])
        /\ \A k \in 1..Len(docs) : docs[k].name # "id"
        /\ (\A i \in 1..Len(d) : d[i].name # "id") => Len(docs) = Len(d)

C3_Witness ==
    /\ op = "list_from_field_schema"
    /\ Len(d) = 3
    /\ d[2].name = "id"
    /\ Len(docs) = 2
    /\ docs[1].name = d[1].name
    /\ docs[2].name = d[3].name

\* C5 as stated: a document whose subfield is absent matches a descriptor of
\* the same name and ftype whatever its nested field, and one whose
\* embedded_doc_type is absent matches whatever the descriptor's
\* document_type: matches_field returns True.
C5_AbsentAlwaysMatches ==
    (Matched /\ SameNameAndType) =>
        /\ ~Truthy(doc.subfield) => outcome = Return(TRUE)
        /\ ~Truthy(doc.embedded_doc_type) => outcome = Return(TRUE)

\* doc's subfield (embedded_doc_type) is the type of arg's nested field
\* (document_type).
SubfieldAgrees ==
    arg.field # Missing /\ doc.subfield = get_class_name(arg.field)
EmbeddedDocTypeAgrees ==
    arg.document_type # Missing
        /\ doc.embedded_doc_type = get_class_name(arg.document_type)

\* C5, amended: a document whose subfield is absent matches a descriptor of
\* the same name and ftype whatever its nested field, provided its
\* embedded_doc_type is absent too or agrees with the descriptor's
\* document_type; and likewise with subfield and embedded_doc_type exchanged.
C5_Widening ==
    (Matched /\ SameNameAndType) =>
        /\ (~Truthy(doc.subfield)
                /\ (~Truthy(doc.embedded_doc_type) \/ EmbeddedDocTypeAgrees))
            => outcome = Return(TRUE)
        /\ (~Truthy(doc.embedded_doc_type)
                /\ (~Truthy(doc.subfield) \/ SubfieldAgrees))
            => outcome = Return(TRUE)

C5_Witness ==
    /\ Matched
    /\ SameNameAndType
    /\ doc.subfield = None
    /\ doc.embedded_doc_type = None
    /\ arg.field = "IntField"
    /\ arg.document_type = "Detection"
    /\ outcome = Return(TRUE)

\* C6: matches_field returns False whenever the names differ, whatever the
\* other attributes are.
C6_NameDiffers ==
    (Matched /\ doc.name # arg.name) => outcome = Return(FALSE)

C6_Witness ==
    /\ Matched
    /\ doc.name # arg.name
    /\ doc.ftype = get_class_name(arg.cls)
    /\ SubfieldAgrees
    /\ EmbeddedDocTypeAgrees
    /\ outcome = Return(FALSE)

\* C7: a document whose subfield is set does not match a descriptor of the
\* same name and ftype whose nested field has another type.
C7_SubfieldDiffers ==
    (Matched /\ SameNameAndType /\ Truthy(doc.subfield)
        /\ arg.field # Missing /\ doc.subfield # get_class_name(arg.field))
    => outcome = Return(FALSE)

C7_Witness ==
    /\ Matched
    /\ SameNameAndType
    /\ arg.cls = "ListField"
    /\ arg.field = "IntField"
    /\ doc.subfield = get_class_name("StringField")
    /\ ~Truthy(doc.embedded_doc_type)
    /\ outcome = Return(FALSE)

\* A document's optional attributes represent the descriptor f: never the
\* empty string, and set only when f has the nested field / document_type.
Represents(p, f) ==
    /\ p.subfield # ""
    /\ p.embedded_doc_type # ""
    /\ p.subfield # None => f.field \in NestedClasses
    /\ p.embedded_doc_type # None => f.document_type \in DocumentClasses

\* C8: every document from_field or list_from_field_schema produces has an
\* absent subfield / embedded_doc_type as the null marker, never as the empty
\* string, and has them set only when the descriptor has a nested field / a
\* document_type.
C8_AbsentIsNull ==
    /\ op = "from_field" => Represents(doc, origin)
    /\ op = "list_from_field_schema" =>
        \A k \in 1..Len(docs) :
            \E i \in 1..Len(d) : d[i].name = docs[k].name /\ Represents(docs[k], d[i])

C8_Witness ==
    /\ op = "from_field"
    /\ origin.field = None
    /\ origin.document_type \in DocumentClasses
    /\ doc.subfield = None
    /\ doc.embedded_doc_type = get_class_name(origin.document_type)

(***************************************************************************)
(* Properties of the DatasetDocument store (SpecStore)                     *)
(***************************************************************************)
\* No two persisted records share a name or a sample_collection_name.
UniqueNames ==
    \A a, b \in datasets :
        a # b => (a.name # b.name
                    /\ a.sample_collection_name # b.sample_collection_name)

\* The store answers writer w's create of a name that is already persisted.
CreateOfPersistedName(w) ==
    /\ pending[w].kind = "create"
    /\ \E o \in datasets : o.name = pending[w].name
    /\ pending'[w] = NoRequest

\* C4: whatever creates, updates and deletes the writers interleave, no two
\* persisted DatasetDocument records share a name or a
\* sample_collection_name, and a create of a name already persisted fails
\* with a uniqueness violation and leaves the records as they were.
C4_Unique ==
    /\ []UniqueNames
    /\ [][\A w \in Writers :
            CreateOfPersistedName(w) =>
                /\ reply'[w] = [kind |-> "create", status |-> "NotUniqueError"]
                /\ datasets' = datasets]_vars

C4_Witness ==
    /\ Cardinality(datasets) = 2
    /\ \E w \in Writers :
        /\ reply[w] = [kind |-> "create", status |-> "NotUniqueError"]
        /\ reply[CHOOSE v \in Writers : v # w] = [kind |-> "create", status |-> "ok"]

(***************************************************************************)
(* Properties of convert_transformers_model (SpecConvert)                  *)
(***************************************************************************)
Called == converted # NoOutcome

WrapperClasses ==
    {"FiftyOneTransformer", "FiftyOneTransformerForImageClassification",
     "FiftyOneTransformerForObjectDetection",
     "FiftyOneTransformerForSemanticSegmentation"}

Recognised(m) ==
    \/ is_transformer_for_image_classification(m)
    \/ is_transformer_for_object_detection(m)
    \/ is_transformer_for_semantic_segmentation(m)
    \/ is_transformer_base_model(m)

\* C9: convert_transformers_model returns a wrapper or raises ValueError, and
\* raises ValueError exactly when no recogniser matches the model's class
\* name; a model that a recogniser matches gets a wrapper.
C9_WrapperOrValueError ==
    Called =>
        /\ converted.raises \in {None, "ValueError"}
        /\ converted.raises = None => converted.value \in WrapperClasses
        /\ converted.raises = "ValueError" <=> ~Recognised(model)

\* The class name of the model.
ClassName == Flatten(model.name)

\* C10: dispatch is by first match in the order classification, detection,
\* segmentation, base: each class name yields the wrapper of the first
\* recogniser it matches, the base wrapper is returned only for a name with
\* "Model" and without "For", and the base recogniser is disjoint from the
\* other three.
C10_FirstMatch ==
    Called =>
        /\ Contains(STR_ForImageClassification, ClassName)
            => converted = Return("FiftyOneTransformerForImageClassification")
        /\ (Contains(STR_ForObjectDetection, ClassName)
                /\ ~Contains(STR_ForImageClassification, ClassName))
            => converted = Return("FiftyOneTransformerForObjectDetection")
        /\ (Contains(STR_For, ClassName) /\ Contains(STR_Segmentation, ClassName)
                /\ ~Contains(STR_ForObjectDetection, ClassName)
                /\ ~Contains(STR_ForImageClassification, ClassName))
            => converted = Return("FiftyOneTransformerForSemanticSegmentation")
        /\ converted = Return("FiftyOneTransformer")
            => (Contains(STR_Model, ClassName) /\ ~Contains(STR_For, ClassName))
        /\ is_transformer_base_model(model) =>
            /\ ~is_transformer_for_image_classification(model)
            /\ ~is_transformer_for_object_detection(model)
            /\ ~is_transformer_for_semantic_segmentation(model)

\* The image processor of the model loads, by AutoImageProcessor or by the
\* fallback.
ProcessorLoads == get_image_processor(model).raises = None

\* What holds of C9 and C10 on the calls whose image processor loads.
ConvertWhenProcessorLoads ==
    (Called /\ ProcessorLoads) => (C9_WrapperOrValueError /\ C10_FirstMatch)

====
